---- MODULE Spec2Model ----
(***************************************************************************)
(* Retail sales dashboard (src/app.py): the cached synthetic data          *)
(* generator load_data and the script body that filters the table, guards  *)
(* the empty result and computes the KPIs and the grouped aggregates.      *)
(*                                                                         *)
(* Units.  Money is kept in cents and Discount in hundredths, the          *)
(* resolution np.round(..., 2) leaves; a Timestamp is a number of hours    *)
(* since 2023-12-31 00:00, a date is a day of the year 2024 (1..366).      *)
(***************************************************************************)
EXTENDS Integers, Sequences, FiniteSets, TLC

\* ------------------------------------------------------------------ bounds
\* Spec: the process is configured with n_rows in -1..MaxRows, seed in 0..MaxSeed.
MaxRows == 4
MaxSeed == 4
\* SpecGen: at most MaxCalls generator calls / cache clears, with n_rows in
\* -1..MaxGenRows and seed in 0..MaxGenSeed.
MaxCalls == 3
MaxGenRows == 2
MaxGenSeed == 1

RowCounts == -1..MaxRows
Seeds == 0..MaxSeed
GenRowCounts == -1..MaxGenRows
GenSeeds == 0..MaxGenSeed

\* --------------------------------------------------------- numeric helpers
\* np.round: round half to even, here of the rational num/den (den > 0).
RoundHalfEven(num, den) ==
    LET q == num \div den
        r == num % den
    IN  IF 2 * r < den THEN q
        ELSE IF 2 * r > den THEN q + 1
        ELSE IF q % 2 = 0 THEN q ELSE q + 1

RECURSIVE SumSeq(_)
SumSeq(s) == IF s = <<>> THEN 0 ELSE Head(s) + SumSeq(Tail(s))

SetMin(S) == CHOOSE x \in S : \A y \in S : x <= y
SetMax(S) == CHOOSE x \in S : \A y \in S : x >= y

\* The elements of a finite set of integers in ascending order.
RECURSIVE SortedSeq(_)
SortedSeq(S) == IF S = {} THEN <<>> ELSE <<SetMin(S)>> \o SortedSeq(S \ {SetMin(S)})

\* ----------------------------------------------------------------- calendar
\* pd.date_range("2024-01-01", "2024-12-31", freq="D"): 366 midnights.
DaysInYear == 366
\* First day (of the year) of each month of the leap year 2024.
MonthStarts == {1, 32, 61, 92, 122, 153, 183, 214, 245, 275, 306, 336}

\* pd.to_datetime(date): the Timestamp of that date's midnight.
ToDatetime(d) == d * 24
\* Timestamp.date(): the calendar date a Timestamp falls on.
DateOf(ts) == ts \div 24
\* dt.to_period("M").dt.to_timestamp(): midnight of the first day of the month.
MonthOf(ts) == ToDatetime(SetMax({m \in MonthStarts : m <= DateOf(ts)}))

\* ------------------------------------------------------------ the generator
regionList == <<"North", "South", "East", "West">>
segmentList == <<"Consumer", "Corporate", "Home Office">>
productList == <<"Alpha", "Bravo", "Cobalt", "Delta", "Echo">>

\* np.random.default_rng(seed): a generator whose whole state derives from the
\* seed.  The bit generator is modelled as a 16-bit linear congruential one.
RngModulus == 65536
SeedState(seed) == (seed * 7919 + 12345) % RngModulus
RngStep(s) == (s * 25173 + 13849) % RngModulus

RECURSIVE RngAfter(_, _)
RngAfter(s, k) == IF k = 0 THEN s ELSE RngAfter(RngStep(s), k - 1)

\* One batch of n raw draws (size=n) from state s; the state moves n steps.
RawBatch(s, n) == [i \in 1..n |-> RngAfter(s, i) \div 16]

\* rng.choice(a, size=n): n uniform picks of a.
ChoiceBatch(s, a, n) ==
    LET raw == RawBatch(s, n) IN [i \in 1..n |-> a[1 + (raw[i] % Len(a))]]
\* rng.choice(dates, size=n): n uniform picks among the 366 midnights.
DateBatch(s, n) ==
    LET raw == RawBatch(s, n) IN [i \in 1..n |-> ToDatetime(1 + (raw[i] % DaysInYear))]
\* rng.integers(1, 6, size=n): uniform in 1..5 (the high end is exclusive).
QuantityLow == 1
QuantityHigh == 6
QuantityBatch(s, n) ==
    LET raw == RawBatch(s, n)
    IN  [i \in 1..n |-> QuantityLow + (raw[i] % (QuantityHigh - QuantityLow))]
\* np.round(rng.uniform(0, 0.3, size=n), 2): the draw in 1e-4 units, then
\* rounded to hundredths.
DiscountBatch(s, n) ==
    LET raw == RawBatch(s, n) IN [i \in 1..n |-> RoundHalfEven(raw[i] % 3000, 100)]
\* rng.gamma(shape=2.2, scale=120, size=n): a non-negative amount, in cents.
GammaBatch(s, n) ==
    LET raw == RawBatch(s, n) IN [i \in 1..n |-> (raw[i] * 37) % 100000]
\* rng.normal(0, 8, size=n): a signed amount, in cents.
NormalBatch(s, n) ==
    LET raw == RawBatch(s, n) IN [i \in 1..n |-> ((raw[i] * 29) % 4801) - 2400]

\* Sales = np.round(base * (1 - Discount) + Quantity * 20, 2), in cents.
SalesOf(base, discount, quantity) ==
    RoundHalfEven(base * (100 - discount) + quantity * 2000 * 100, 100)
\* Profit = np.round(Sales * (0.22 - Discount * 0.45) + noise, 2), in cents.
ProfitOf(sales, discount, noise) ==
    RoundHalfEven(sales * (2200 - 45 * discount) + noise * 10000, 10000)

Columns ==
    <<"OrderDate", "Region", "Segment", "Product", "Quantity", "Discount",
      "Sales", "Profit", "Month">>

\* The body of load_data for n >= 0, from generator state s0: eight batches of
\* n draws each, in the order the source draws them.  A table is its column
\* list and its rows; Index is the row label (RangeIndex) pandas keeps.
BuildTable(s0, n) ==
    LET dates == DateBatch(s0, n)
        regs == ChoiceBatch(RngAfter(s0, n), regionList, n)
        segs == ChoiceBatch(RngAfter(s0, 2 * n), segmentList, n)
        prods == ChoiceBatch(RngAfter(s0, 3 * n), productList, n)
        qty == QuantityBatch(RngAfter(s0, 4 * n), n)
        disc == DiscountBatch(RngAfter(s0, 5 * n), n)
        base == GammaBatch(RngAfter(s0, 6 * n), n)
        noise == NormalBatch(RngAfter(s0, 7 * n), n)
        sales == [i \in 1..n |-> SalesOf(base[i], disc[i], qty[i])]
    IN  [columns |-> Columns,
         rows |-> [i \in 1..n |->
            [Index |-> i - 1,
             OrderDate |-> dates[i],
             Region |-> regs[i],
             Segment |-> segs[i],
             Product |-> prods[i],
             Quantity |-> qty[i],
             Discount |-> disc[i],
             Sales |-> sales[i],
             Profit |-> ProfitOf(sales[i], disc[i], noise[i]),
             Month |-> MonthOf(dates[i])]]]

\* Draws a call of load_data consumes: eight batches of n.
DrawsOf(n) == 8 * n


\* ------------------------------------------------------------------- state
VARIABLES
    n_rows, seed,       \* arguments of the latest load_data call
    cache,              \* st.cache_data store of load_data: <<n_rows, seed>> -> table
    rng,                \* the generator the latest load_data body created
    data,               \* the table load_data returned to the script
    pc,                 \* position of the script run
    err,                \* the exception that ended the latest call / run
    min_d, max_d,       \* bounds of the date widget
    date_range,         \* what st.sidebar.date_input delivered
    regions, segments,  \* what the two multiselects delivered
    date_start, date_end,
    df,                 \* the filtered table
    warning,            \* st.warning("No data ...") was shown
    kpis,               \* <<>> or <<record of the KPI block>>
    download,           \* <<>> or <<the CSV lines given to st.download_button>>
    charts,             \* <<>> or <<record of the grouped aggregates>>
    returned,           \* history: every <<n_rows, seed, table>> load_data returned
    first,              \* history: <<n_rows, seed>> -> the table first returned
    bodyRuns,           \* history: <<n_rows, seed>> -> times the body ran to its end
    calls               \* SpecGen: generator calls and cache clears made

vars ==
    <<n_rows, seed, cache, rng, data, pc, err, min_d, max_d, date_range, regions,
      segments, date_start, date_end, df, warning, kpis, download, charts,
      returned, first, bodyRuns, calls>>

runVars ==
    <<min_d, max_d, date_range, regions, segments, date_start, date_end, df,
      warning, kpis, download, charts>>

NoTable == [columns |-> <<>>, rows |-> <<>>]
NoRange == [kind |-> "unset", value |-> <<>>]
EmptyMap == [k \in {} |-> NoTable]

InitRun ==
    /\ min_d = 0 /\ max_d = 0
    /\ date_range = NoRange
    /\ regions = {} /\ segments = {}
    /\ date_start = 0 /\ date_end = 0
    /\ df = NoTable
    /\ warning = FALSE
    /\ kpis = <<>> /\ download = <<>> /\ charts = <<>>

Init ==
    /\ n_rows \in RowCounts
    /\ seed \in Seeds
    /\ cache = EmptyMap
    /\ rng = [made |-> FALSE, state |-> 0, draws |-> 0]
    /\ data = NoTable
    /\ pc = "load"
    /\ err = "none"
    /\ InitRun
    /\ returned = {}
    /\ first = EmptyMap
    /\ bodyRuns = [k \in {} |-> 0]
    /\ calls = 0

\* ------------------------------------------------------------- load_data
\* rng = np.random.default_rng(seed): a fresh generator local to the call.
GlobalRng(s) == rng.state
NewRng(s) == SeedState(s)

\* rng.choice(dates, size=n_rows) with n_rows < 0: numpy rejects the negative
\* size with a ValueError; nothing in load_data checks n_rows before that.
RaisesOnSize(n) == n < 0

\* One call load_data(n, s) through the st.cache_data wrapper.
LoadData(n, s) ==
    LET key == <<n, s>> IN
    IF key \in DOMAIN cache
    THEN \* cache hit: the body does not run, the stored table is handed out
         /\ data' = cache[key]
         /\ rng' = [rng EXCEPT !.made = FALSE, !.draws = 0]
         /\ err' = "none"
         /\ returned' = returned \cup {<<n, s, cache[key]>>}
         /\ UNCHANGED <<cache, first, bodyRuns>>
    ELSE IF RaisesOnSize(n)
    THEN \* line 57 made the generator; line 64 raises before any draw
         /\ rng' = [made |-> TRUE, state |-> NewRng(s), draws |-> 0]
         /\ err' = "ValueError: negative dimensions are not allowed"
         /\ UNCHANGED <<data, cache, returned, first, bodyRuns>>
    ELSE LET t == BuildTable(NewRng(s), n) IN
         /\ rng' = [made |-> TRUE,
                    state |-> RngAfter(NewRng(s), DrawsOf(n)),
                    draws |-> DrawsOf(n)]
         /\ data' = t
         /\ cache' = [k \in DOMAIN cache \cup {key} |->
                         IF k = key THEN t ELSE cache[k]]
         /\ err' = "none"
         /\ returned' = returned \cup {<<n, s, t>>}
         /\ first' = [k \in DOMAIN first \cup {key} |->
                         IF k \in DOMAIN first THEN first[k] ELSE t]
         /\ bodyRuns' = [k \in DOMAIN bodyRuns \cup {key} |->
                         IF k \in DOMAIN bodyRuns
                         THEN bodyRuns[k] + (IF k = key THEN 1 ELSE 0)
                         ELSE 1]

\* data = load_data(): the script's call, with the process's configuration.
Load ==
    /\ pc = "load"
    /\ LoadData(n_rows, seed)
    /\ pc' = IF err' = "none" THEN "sidebar" ELSE "error"
    /\ UNCHANGED <<n_rows, seed, calls>>
    /\ UNCHANGED runVars

\* ---------------------------------------------------------------- sidebar
Column(rows, col) == [i \in 1..Len(rows) |-> rows[i][col]]
Values(rows, col) == {rows[i][col] : i \in 1..Len(rows)}

\* Lines 85-86 on an empty table: OrderDate.min() / .max() are NaT, and the
\* date widget cannot be built on NaT bounds; the run ends with an exception
\* before the filter and its empty guard are reached.
SidebarNaT ==
    /\ pc = "sidebar"
    /\ data.rows = <<>>
    /\ err' = "ValueError: NaT date bounds"
    /\ pc' = "error"
    /\ UNCHANGED <<n_rows, seed, cache, rng, data, returned, first, bodyRuns, calls>>
    /\ UNCHANGED runVars

\* What st.sidebar.date_input can hand back for a widget built on a pair: a
\* pair, a 1-tuple while only the start has been picked; and a bare date, the
\* shape line 91 tests for.  Every date lies in [min_d, max_d].
DateInputs(cands) ==
    {[kind |-> "date", value |-> <<d>>] : d \in cands}
        \cup {[kind |-> "tuple", value |-> <<d>>] : d \in cands}
        \cup {[kind |-> "tuple", value |-> <<a, b>>] : a \in cands, b \in cands}

\* Lines 85-89: the widget bounds, and one delivery of the three widgets.
Sidebar ==
    /\ pc = "sidebar"
    /\ data.rows # <<>>
    /\ min_d' = DateOf(SetMin(Values(data.rows, "OrderDate")))
    /\ max_d' = DateOf(SetMax(Values(data.rows, "OrderDate")))
    /\ date_range' \in DateInputs({DateOf(ts) : ts \in Values(data.rows, "OrderDate")})
    /\ regions' \in SUBSET Values(data.rows, "Region")
    /\ segments' \in SUBSET Values(data.rows, "Segment")
    /\ pc' = "bind"
    /\ UNCHANGED <<n_rows, seed, cache, rng, data, err, returned, first, bodyRuns, calls>>
    /\ UNCHANGED <<date_start, date_end, df, warning, kpis, download, charts>>

\* ------------------------------------------------------------- date binding
\* Line 91-92: a bare date falls back to the full range of the data.
BindSingle ==
    /\ pc = "bind"
    /\ date_range.kind = "date"
    /\ date_start' = min_d
    /\ date_end' = max_d
    /\ pc' = "filter"
    /\ UNCHANGED <<n_rows, seed, cache, rng, data, err, returned, first, bodyRuns, calls>>
    /\ UNCHANGED <<min_d, max_d, date_range, regions, segments, df, warning,
                   kpis, download, charts>>

\* Line 94 on a pair: date_start, date_end = date_range.
BindPair ==
    /\ pc = "bind"
    /\ date_range.kind = "tuple"
    /\ Len(date_range.value) = 2
    /\ date_start' = date_range.value[1]
    /\ date_end' = date_range.value[2]
    /\ pc' = "filter"
    /\ UNCHANGED <<n_rows, seed, cache, rng, data, err, returned, first, bodyRuns, calls>>
    /\ UNCHANGED <<min_d, max_d, date_range, regions, segments, df, warning,
                   kpis, download, charts>>

\* Line 94 on a 1-tuple: the unpacking into two names raises.
BindPartial ==
    /\ pc = "bind"
    /\ date_range.kind = "tuple"
    /\ Len(date_range.value) # 2
    /\ err' = "ValueError: not enough values to unpack"
    /\ pc' = "error"
    /\ UNCHANGED <<n_rows, seed, cache, rng, data, returned, first, bodyRuns, calls>>
    /\ UNCHANGED runVars

\* ------------------------------------------------------------------ filter
\* The boolean mask of lines 97-100 for one row.
KeepNoEndBound(r, ds, de, regs, segs) ==
    /\ r.OrderDate >= ToDatetime(ds)
    /\ r.OrderDate < ToDatetime(de)
    /\ r.Region \in regs
    /\ r.Segment \in segs
KeepEitherDate(r, ds, de, regs, segs) ==
    /\ (r.OrderDate >= ToDatetime(ds) \/ r.OrderDate <= ToDatetime(de))
    /\ r.Region \in regs
    /\ r.Segment \in segs
Keep(r, ds, de, regs, segs) ==
    /\ r.OrderDate >= ToDatetime(ds)
    /\ r.OrderDate <= ToDatetime(de)
    /\ r.Region \in regs
    /\ r.Segment \in segs

\* data[mask].copy(): the rows the mask keeps, in order, labels kept.
FilterTable(t, ds, de, regs, segs) ==
    LET Test(r) == Keep(r, ds, de, regs, segs)
    IN  [columns |-> t.columns, rows |-> SelectSeq(t.rows, Test)]

\* Lines 96-101, written as if the selection were stored back into data.
FilterInPlace ==
    /\ pc = "filter"
    /\ df' = FilterTable(data, date_start, date_end, regions, segments)
    /\ data' = df'
    /\ pc' = "guard"
    /\ UNCHANGED <<n_rows, seed, cache, rng, err, returned, first, bodyRuns, calls>>
    /\ UNCHANGED <<min_d, max_d, date_range, regions, segments, date_start,
                   date_end, warning, kpis, download, charts>>

\* Lines 96-101: df is a new table; data is only read.
Filter ==
    /\ pc = "filter"
    /\ df' = FilterTable(data, date_start, date_end, regions, segments)
    /\ pc' = "guard"
    /\ UNCHANGED <<n_rows, seed, cache, rng, data, err, returned, first, bodyRuns, calls>>
    /\ UNCHANGED <<min_d, max_d, date_range, regions, segments, date_start,
                   date_end, warning, kpis, download, charts>>

\* ------------------------------------------------------------- empty guard
\* Line 103: df.empty.
NeverEmpty(t) == FALSE
IsEmpty(t) == Len(t.rows) = 0

\* Lines 103-105: warn and st.stop(); nothing below runs.
StopNoData ==
    /\ pc = "guard"
    /\ IsEmpty(df)
    /\ warning' = TRUE
    /\ pc' = "stopped"
    /\ UNCHANGED <<n_rows, seed, cache, rng, data, err, returned, first, bodyRuns, calls>>
    /\ UNCHANGED <<min_d, max_d, date_range, regions, segments, date_start,
                   date_end, df, kpis, download, charts>>

\* -------------------------------------------------------------------- KPIs
\* df.groupby(col, as_index=False)["Sales"].agg over the keys present, in the
\* order `keys` (pandas sorts the group keys ascending).
GroupByMax(rows, col, keys) ==
    [i \in 1..Len(keys) |->
        [key |-> keys[i],
         Sales |-> LET Test(r) == r[col] = keys[i]
                   IN  SetMax(Values(SelectSeq(rows, Test), "Sales"))]]
GroupBySum(rows, col, keys) ==
    [i \in 1..Len(keys) |->
        [key |-> keys[i],
         Sales |-> LET Test(r) == r[col] = keys[i]
                   IN  SumSeq(Column(SelectSeq(rows, Test), "Sales"))]]

\* The keys of a text column that occur, in alphabetical order.
PresentKeys(rows, col, alphabetical) ==
    LET Test(k) == k \in Values(rows, col)
    IN  SelectSeq(alphabetical, Test)

\* Line 111: Sales per Month, months ascending.
MonthlyNewestFirst(t) ==
    LET asc == SortedSeq(Values(t.rows, "Month"))
    IN  GroupBySum(t.rows, "Month", [i \in 1..Len(asc) |-> asc[Len(asc) + 1 - i]])
Monthly(t) == GroupBySum(t.rows, "Month", SortedSeq(Values(t.rows, "Month")))

\* A float64 quotient: division by zero gives inf / nan, not an exception.
Quotient(a, b) ==
    IF b = 0 THEN [kind |-> IF a = 0 THEN "nan" ELSE "inf", num |-> a, den |-> b]
    ELSE [kind |-> "ratio", num |-> a, den |-> b]
NaN == [kind |-> "nan", num |-> 0, den |-> 0]

\* Line 112: (last - second last) / second last, or nan under two months.
MoM(monthly) ==
    LET n == Len(monthly) IN
    IF n >= 2
    THEN Quotient(monthly[n].Sales - monthly[n - 1].Sales, monthly[n - 1].Sales)
    ELSE NaN

\* Line 110: total_sales / orders if orders else 0.0.
Aov(total_sales, orders) ==
    IF orders # 0 THEN [divided |-> TRUE, num |-> total_sales, den |-> orders]
    ELSE [divided |-> FALSE, num |-> 0, den |-> 1]

\* Line 122: a dash for nan, else the ratio as a percentage with one decimal
\* (kept in tenths of a percent).
RenderMoM(mom) ==
    IF mom.kind = "nan" THEN [text |-> "dash", tenths |-> 0]
    ELSE IF mom.kind = "inf" THEN [text |-> "inf%", tenths |-> 0]
    ELSE [text |-> "percent", tenths |-> RoundHalfEven(mom.num * 1000, mom.den)]

Max2(a, b) == IF a >= b THEN a ELSE b

\* Lines 108-122.
KPIs ==
    /\ pc = "guard"
    /\ ~IsEmpty(df)
    /\ LET total_sales == SumSeq(Column(df.rows, "Sales"))
           orders == Len(df.rows)
           monthly == Monthly(df)
           mom == MoM(monthly)
           purchases == Max2(orders, 1)
           leads == (purchases * 35) \div 10
       IN  kpis' = <<[total_sales |-> total_sales,
                      orders |-> orders,
                      aov |-> Aov(total_sales, orders),
                      monthly |-> monthly,
                      mom |-> mom,
                      purchases |-> purchases,
                      leads |-> leads,
                      visitors |-> leads * 3,
                      k4 |-> RenderMoM(mom)]>>
    /\ pc' = "download"
    /\ UNCHANGED <<n_rows, seed, cache, rng, data, err, returned, first, bodyRuns, calls>>
    /\ UNCHANGED <<min_d, max_d, date_range, regions, segments, date_start,
                   date_end, df, warning, download, charts>>

\* ---------------------------------------------------------------- download
\* df.to_csv(index=False): a header line, then one line per row with the
\* values in column order; the row label is left out.
ToCsv(t) ==
    <<t.columns>> \o
        [i \in 1..Len(t.rows) |-> [j \in 1..Len(t.columns) |-> t.rows[i][t.columns[j]]]]

\* Lines 125-130.
Download ==
    /\ pc = "download"
    /\ download' = <<ToCsv(df)>>
    /\ pc' = "charts"
    /\ UNCHANGED <<n_rows, seed, cache, rng, data, err, returned, first, bodyRuns, calls>>
    /\ UNCHANGED <<min_d, max_d, date_range, regions, segments, date_start,
                   date_end, df, warning, kpis, charts>>

\* ------------------------------------------------------------------ charts
\* sort_values("Sales", ascending=False): largest first; equal sums keep the
\* group order.
RECURSIVE SortBySalesDesc(_)
SortBySalesDesc(s) ==
    IF s = <<>> THEN <<>>
    ELSE LET top == SetMax({s[i].Sales : i \in 1..Len(s)})
             at == SetMin({i \in 1..Len(s) : s[i].Sales = top})
         IN  <<s[at]>> \o SortBySalesDesc(SubSeq(s, 1, at - 1) \o SubSeq(s, at + 1, Len(s)))

\* .head(10)
Head10(s) == SubSeq(s, 1, IF Len(s) < 10 THEN Len(s) ELSE 10)

\* Lines 135-167: the grouped aggregates handed to the figures.
Charts ==
    /\ pc = "charts"
    /\ charts' =
         <<[trend |-> kpis[1].monthly,
            seg |-> GroupBySum(df.rows, "Segment",
                        PresentKeys(df.rows, "Segment",
                            <<"Consumer", "Corporate", "Home Office">>)),
            reg |-> GroupBySum(df.rows, "Region",
                        PresentKeys(df.rows, "Region",
                            <<"East", "North", "South", "West">>)),
            funnel |-> <<kpis[1].visitors, kpis[1].leads, kpis[1].purchases>>,
            prod |-> Head10(SortBySalesDesc(
                        GroupBySum(df.rows, "Product",
                            PresentKeys(df.rows, "Product",
                                <<"Alpha", "Bravo", "Cobalt", "Delta", "Echo">>))))]>>
    /\ pc' = "done"
    /\ UNCHANGED <<n_rows, seed, cache, rng, data, err, returned, first, bodyRuns, calls>>
    /\ UNCHANGED <<min_d, max_d, date_range, regions, segments, date_start,
                   date_end, df, warning, kpis, download>>

\* ------------------------------------------------------------------- rerun
\* A widget interaction runs the script again from the top; the cache of
\* load_data outlives the run, the script's names do not.
Rerun ==
    /\ pc \in {"done", "stopped", "error"}
    /\ pc' = "load"
    /\ err' = "none"
    /\ data' = NoTable
    /\ min_d' = 0 /\ max_d' = 0
    /\ date_range' = NoRange
    /\ regions' = {} /\ segments' = {}
    /\ date_start' = 0 /\ date_end' = 0
    /\ df' = NoTable
    /\ warning' = FALSE
    /\ kpis' = <<>> /\ download' = <<>> /\ charts' = <<>>
    /\ UNCHANGED <<n_rows, seed, cache, rng, returned, first, bodyRuns, calls>>

Next ==
    \/ Load
    \/ SidebarNaT
    \/ Sidebar
    \/ BindSingle
    \/ BindPair
    \/ BindPartial
    \/ Filter
    \/ StopNoData
    \/ KPIs
    \/ Download
    \/ Charts
    \/ Rerun

Spec == Init /\ [][Next]_vars

\* ------------------------------------------------- the generator on its own
\* load_data called with any arguments, any number of times (up to MaxCalls).
Call ==
    /\ calls < MaxCalls
    /\ \E n \in GenRowCounts, s \in GenSeeds :
          /\ n_rows' = n
          /\ seed' = s
          /\ LoadData(n, s)
    /\ calls' = calls + 1
    /\ UNCHANGED pc
    /\ UNCHANGED runVars

\* st.cache_data keeps its entries in the process only: clearing the cache
\* (or a new process) makes the next call run the body again.
ClearCache ==
    /\ calls < MaxCalls
    /\ cache # EmptyMap
    /\ cache' = EmptyMap
    /\ calls' = calls + 1
    /\ UNCHANGED <<n_rows, seed, rng, data, pc, err, returned, first, bodyRuns>>
    /\ UNCHANGED runVars

NextGen == Call \/ ClearCache

SpecGen == Init /\ [][NextGen]_vars

\* ================================================================== claims
Filtered == pc \in {"guard", "stopped", "download", "charts", "done"}

\* The positions of the source rows a selection asks for, stated on calendar
\* dates.
Wanted ==
    {i \in 1..Len(data.rows) :
        /\ date_start <= DateOf(data.rows[i].OrderDate)
        /\ DateOf(data.rows[i].OrderDate) <= date_end
        /\ data.rows[i].Region \in regions
        /\ data.rows[i].Segment \in segments}

\* C1: the filtered table holds exactly the source records with
\* date_start <= OrderDate <= date_end (both inclusive), Region allowed and
\* Segment allowed: every output record is such a source record, and every
\* such source record appears exactly once, in source order.
C1_FilterExact ==
    Filtered =>
        /\ Len(df.rows) = Cardinality(Wanted)
        /\ \A j \in 1..Len(df.rows) :
              \E i \in Wanted : df.rows[j] = data.rows[i]
        /\ \A i \in Wanted :
              Cardinality({j \in 1..Len(df.rows) :
                              df.rows[j].Index = data.rows[i].Index}) = 1
        /\ \A j, k \in 1..Len(df.rows) :
              j < k => df.rows[j].Index < df.rows[k].Index

\* A selection that keeps a row dated exactly date_end, keeps a row dated
\* exactly date_start, and drops some other row.
C1_Witness ==
    /\ Filtered
    /\ date_start < date_end
    /\ \E j \in 1..Len(df.rows) : DateOf(df.rows[j].OrderDate) = date_end
    /\ \E j \in 1..Len(df.rows) : DateOf(df.rows[j].OrderDate) = date_start
    /\ Len(df.rows) < Len(data.rows)

\* C2: an empty filtered table raises the no-data warning and stops the run
\* before any KPI, download or chart is computed; the KPIs are only ever
\* computed with orders >= 1, so the average order value is a real division
\* by a positive count.
C2_EmptyStops ==
    /\ (Filtered /\ df.rows = <<>>) =>
          /\ pc \in {"guard", "stopped"}
          /\ kpis = <<>> /\ download = <<>> /\ charts = <<>>
    /\ pc = "stopped" => (warning /\ df.rows = <<>>)
    /\ warning => pc = "stopped"
    /\ kpis # <<>> =>
          /\ kpis[1].orders >= 1
          /\ kpis[1].orders = Len(df.rows)
          /\ kpis[1].aov.divided
          /\ kpis[1].aov.den = kpis[1].orders

\* A run on a non-empty dataset that the selection emptied and that stopped.
C2_Witness ==
    /\ pc = "stopped"
    /\ warning
    /\ data.rows # <<>>
    /\ regions # {} /\ segments # {}

\* Sales of the filtered rows of one month, summed row by row.
RECURSIVE SalesInMonth(_, _)
SalesInMonth(rows, m) ==
    IF rows = <<>> THEN 0
    ELSE (IF Head(rows).Month = m THEN Head(rows).Sales ELSE 0)
            + SalesInMonth(Tail(rows), m)

\* C3: month-over-month growth is (last - second last) / second last over the
\* per-month Sales sums with the months ascending; with fewer than two
\* distinct months it is not applicable and shown as a dash; the second-last
\* sum is never 0, so no division by zero occurs.
C3_MoMGrowth ==
    kpis # <<>> =>
        LET months == Values(df.rows, "Month") IN
        IF Cardinality(months) >= 2
        THEN LET last == SetMax(months)
                 prev == SetMax(months \ {last})
             IN  /\ SalesInMonth(df.rows, prev) > 0
                 /\ kpis[1].mom =
                       [kind |-> "ratio",
                        num |-> SalesInMonth(df.rows, last) - SalesInMonth(df.rows, prev),
                        den |-> SalesInMonth(df.rows, prev)]
                 /\ kpis[1].k4.text = "percent"
        ELSE /\ kpis[1].mom.kind = "nan"
             /\ kpis[1].k4.text = "dash"

\* KPIs over a filtered table with three or more months, one of the last two
\* holding several rows.
C3_Witness ==
    /\ kpis # <<>>
    /\ Cardinality(Values(df.rows, "Month")) >= 3
    /\ Len(df.rows) > Cardinality(Values(df.rows, "Month"))
    /\ kpis[1].mom.kind = "ratio"
    /\ kpis[1].mom.num < 0

C5_Deterministic ==
    \A a \in returned, b \in returned :
        (a[1] = b[1] /\ a[2] = b[2]) => a[3] = b[3]

\* The body ran twice for the same arguments (the cache was cleared in
\* between) on a non-empty table.
C5_Witness ==
    \E k \in DOMAIN bodyRuns :
        /\ bodyRuns[k] >= 2
        /\ k[1] >= 1
        /\ rng.made

\* C6: for every n_rows >= 0 load_data returns exactly n_rows records with
\* every documented column, and with n_rows = 0 the run ends in the no-data
\* signal rather than in an exception.
C6_EmptyDatasetSignals ==
    /\ (n_rows >= 0 /\ pc # "load") =>
          /\ Len(data.rows) = n_rows
          /\ data.columns = Columns
    /\ (n_rows = 0 /\ pc \in {"done", "stopped", "error"}) =>
          /\ pc = "stopped"
          /\ warning

\* C7: date_start > date_end gives an empty filtered table and the no-data
\* stop; never an exception, never a non-empty result.
C7_DegenerateRange ==
    date_start > date_end =>
        /\ err = "none"
        /\ pc \in {"filter", "guard", "stopped"}
        /\ pc # "filter" => df.rows = <<>>
        /\ pc = "stopped" => warning

\* A stopped run whose range is reversed while every Region and Segment of
\* the data is allowed.
C7_Witness ==
    /\ pc = "stopped"
    /\ date_start > date_end
    /\ regions = Values(data.rows, "Region")
    /\ segments = Values(data.rows, "Segment")

\* C8: a negative n_rows fails with an input-validation error before any
\* generation step: no generator is created, no draw is consumed and nothing
\* is built or cached.
C8_NegativeFailsFast ==
    (n_rows < 0 /\ pc # "load") =>
        /\ pc = "error"
        /\ ~rng.made
        /\ rng.draws = 0
        /\ <<n_rows, seed>> \notin DOMAIN cache

\* C9: the cached table stays the table the generator first returned, through
\* every rerun and selection; the filter yields a new table and nothing after
\* load_data changes the source the script holds.
C9_SourceImmutable ==
    /\ \A k \in DOMAIN cache : cache[k] = first[k]
    /\ (pc \notin {"load", "error"}) =>
          /\ <<n_rows, seed>> \in DOMAIN cache
          /\ data = first[<<n_rows, seed>>]

\* A rerun answered from the cache whose selection dropped rows and that ran
\* to its end.
C9_Witness ==
    /\ pc = "done"
    /\ ~rng.made
    /\ Len(df.rows) < Len(data.rows)

\* C10: whatever the date widget delivers (a bare date, a 1-tuple holding the
\* start only, or a pair), both date_start and date_end get bound without an
\* exception: a bare date gives [min_d, max_d], a pair is taken as given.
C10_DatesAlwaysBound ==
    (date_range.kind # "unset" /\ pc # "bind") =>
        /\ err = "none"
        /\ date_start # 0 /\ date_end # 0
        /\ date_range.kind = "date" => (date_start = min_d /\ date_end = max_d)
        /\ (date_range.kind = "tuple" /\ Len(date_range.value) = 2) =>
              (date_start = date_range.value[1] /\ date_end = date_range.value[2])

====
